---------------------------- MODULE Spec2Model ----------------------------
(***************************************************************************)
(* Model of the mock-data generator: the field normalizer, the schema      *)
(* validator, the value generator, the record generator and the GET and    *)
(* POST /generate handlers (src/src/generation.ts, src/unnamed/part_002).  *)
(*                                                                         *)
(* JavaScript values are tagged records.  A number is v + frac/10 with     *)
(* frac in 0..9, so that a non-integer such as 2.5 can be told from 2; the *)
(* bounded inputs carry at most one fractional digit.  Strings are TLA+    *)
(* strings and every conversion between text and numbers is computed       *)
(* character by character.                                                 *)
(***************************************************************************)
EXTENDS Integers, Sequences, FiniteSets, TLC

(***************************************************************************)
(* JavaScript values                                                       *)
(***************************************************************************)
U == [t |-> "undefined"]
Null == [t |-> "null"]
NaN == [t |-> "NaN"]
Frac(n, f) == [t |-> "number", v |-> n, frac |-> f]
Num(n) == Frac(n, 0)
Str(s) == [t |-> "string", v |-> s]
Bool(b) == [t |-> "boolean", v |-> b]
Arr(q) == [t |-> "array", v |-> q]
Obj(r) == [t |-> "object", v |-> r]
\* A string known only by the JSON value it holds: what JSON.stringify wrote.
JsonText(x) == [t |-> "json", v |-> x]
\* A string the value source produced: capability cap, its argument, the draw.
Gen(cap, arg, r) == [t |-> "gen", cap |-> cap, arg |-> arg, r |-> r]
\* An object of the value source's capability tree returned as a value.
Capability(path) == [t |-> "capability", v |-> path]

TypeOf(x) ==
    CASE x.t = "NaN" -> "number"
      [] x.t \in {"json", "gen"} -> "string"
      [] x.t \in {"null", "array", "capability"} -> "object"
      [] OTHER -> x.t

IsArray(x) == x.t = "array"

\* JavaScript truthiness, as used by `x ? a : b`, `x || d` and `if (x)`.
Truthy(x) ==
    CASE x.t \in {"undefined", "null", "NaN"} -> FALSE
      [] x.t = "number" -> x.v # 0 \/ x.frac # 0
      [] x.t = "string" -> x.v # ""
      [] x.t = "boolean" -> x.v
      [] OTHER -> TRUE

(***************************************************************************)
(* Text and numbers                                                        *)
(***************************************************************************)
DigitChars == "0123456789"
CharAt(s, i) == SubSeq(s, i, i)
IsDigit(c) == \E d \in 0..9 : CharAt(DigitChars, d + 1) = c
DigitVal(c) == CHOOSE d \in 0..9 : CharAt(DigitChars, d + 1) = c
DigitChar(d) == CharAt(DigitChars, d + 1)

RECURSIVE NatToStr(_)
NatToStr(n) == IF n < 10 THEN DigitChar(n) ELSE NatToStr(n \div 10) \o DigitChar(n % 10)
IntToStr(n) == IF n < 0 THEN "-" \o NatToStr(-n) ELSE NatToStr(n)

\* Number of leading characters of s, from position i, that are digits.
RECURSIVE DigitRun(_, _)
DigitRun(s, i) == IF i <= Len(s) /\ IsDigit(CharAt(s, i)) THEN 1 + DigitRun(s, i + 1) ELSE 0

RECURSIVE DigitsValue(_)
DigitsValue(s) ==
    IF s = "" THEN 0 ELSE 10 * DigitsValue(SubSeq(s, 1, Len(s) - 1)) + DigitVal(CharAt(s, Len(s)))

RECURSIVE TrimLeft(_)
TrimLeft(s) == IF s # "" /\ CharAt(s, 1) = " " THEN TrimLeft(SubSeq(s, 2, Len(s))) ELSE s
RECURSIVE TrimRight(_)
TrimRight(s) == IF s # "" /\ CharAt(s, Len(s)) = " " THEN TrimRight(SubSeq(s, 1, Len(s) - 1)) ELSE s

\* parseInt(s, 10): leading blanks, an optional sign, the longest run of digits.
ParseInt(s) ==
    LET a == TrimLeft(s)
        neg == a # "" /\ CharAt(a, 1) = "-"
        signed == a # "" /\ CharAt(a, 1) \in {"-", "+"}
        b == IF signed THEN SubSeq(a, 2, Len(a)) ELSE a
        n == DigitRun(b, 1)
        m == DigitsValue(SubSeq(b, 1, n))
    IN  IF n = 0 THEN NaN ELSE Num(IF neg THEN -m ELSE m)

\* Number(s) of a string: blanks trimmed, "" is 0, a whole decimal literal
\* (sign, digits, at most one fractional digit), anything else NaN.
StringToNumber(s) ==
    LET a == TrimRight(TrimLeft(s))
        neg == a # "" /\ CharAt(a, 1) = "-"
        signed == a # "" /\ CharAt(a, 1) \in {"-", "+"}
        b == IF signed THEN SubSeq(a, 2, Len(a)) ELSE a
        n == DigitRun(b, 1)
        m == DigitsValue(SubSeq(b, 1, n))
        rest == SubSeq(b, n + 1, Len(b))
    IN  IF a = "" THEN Num(0)
        ELSE IF n = 0 THEN NaN
        ELSE IF rest = "" \/ rest = "." \/ rest = ".0" THEN Num(IF neg THEN -m ELSE m)
        ELSE IF Len(rest) = 2 /\ CharAt(rest, 1) = "." /\ IsDigit(CharAt(rest, 2))
             THEN (IF neg THEN Frac(-m - 1, 10 - DigitVal(CharAt(rest, 2)))
                   ELSE Frac(m, DigitVal(CharAt(rest, 2))))
        ELSE NaN

\* Number.prototype.toString of a finite number.
NumToStr(x) ==
    IF x.frac = 0 THEN IntToStr(x.v)
    ELSE IF x.v >= 0 THEN NatToStr(x.v) \o "." \o DigitChar(x.frac)
    ELSE "-" \o NatToStr(-x.v - 1) \o "." \o DigitChar(10 - x.frac)


BoolToStr(b) == IF b THEN "true" ELSE "false"

RECURSIVE JoinStr(_)
\* String(x): the text JavaScript gives a value.
ToStr(x) ==
    CASE x.t = "string" -> x.v
      [] x.t = "number" -> NumToStr(x)
      [] x.t = "NaN" -> "NaN"
      [] x.t = "boolean" -> BoolToStr(x.v)
      [] x.t = "undefined" -> "undefined"
      [] x.t = "null" -> "null"
      [] x.t = "array" -> JoinStr(x.v)
      [] OTHER -> "[object Object]"
\* Array.prototype.toString: the elements' texts joined by commas, null and
\* undefined elements as empty text.
JoinStr(q) ==
    IF q = <<>> THEN ""
    ELSE LET h == IF Head(q).t \in {"undefined", "null"} THEN "" ELSE ToStr(Head(q))
         IN  IF Len(q) = 1 THEN h ELSE h \o "," \o JoinStr(Tail(q))

\* Number(x).
ToNumber(x) ==
    CASE x.t \in {"number", "NaN"} -> x
      [] x.t = "string" -> StringToNumber(x.v)
      [] x.t = "boolean" -> Num(IF x.v THEN 1 ELSE 0)
      [] x.t = "null" -> Num(0)
      [] x.t = "array" -> StringToNumber(JoinStr(x.v))
      [] OTHER -> NaN

(***************************************************************************)
(* Results of an operation that may throw                                  *)
(***************************************************************************)
Ok(v) == [ok |-> TRUE, v |-> v]
Throw(e) == [ok |-> FALSE, err |-> e]

InvalidFieldsFormat == "Error: Invalid fields format. Must be a JSON array."
NotIterable == "TypeError: fields.map is not a function"
NoProperties == "TypeError: Cannot read properties of undefined or null"
BadRange == "FakerError: Max should be greater than min"

(***************************************************************************)
(* Field descriptors                                                       *)
(***************************************************************************)
SUPPORTED_TYPES ==
    {"string", "number", "boolean", "date", "enum", "email", "phone", "uuid",
     "url", "image", "address", "city", "country", "zipcode", "firstname",
     "lastname", "fullname", "username", "password", "hexcolor",
     "credit_card", "company", "job_title", "ipv4", "ipv6", "latitude",
     "longitude", "sentence", "paragraph", "word"}

AttrNames == {"name", "type", "related", "values", "min", "max", "length", "format"}

\* An object literal with the given attributes; an attribute of U is absent.
Field(name, type, related, values, min, max, length, format) ==
    Obj([name |-> name, type |-> type, related |-> related, values |-> values,
         min |-> min, max |-> max, length |-> length, format |-> format])

\* f[key] for a value that is neither undefined nor null.
Prop(f, key) ==
    CASE f.t = "object" -> IF key \in DOMAIN f.v THEN f.v[key] ELSE U
      [] f.t \in {"array", "string"} /\ key = "length" -> Num(Len(f.v))
      [] OTHER -> U

NormalizeOne(f) ==
    Field(Prop(f, "name"),
          Prop(f, "type"),
          IF Truthy(Prop(f, "related")) THEN Str(ToStr(Prop(f, "related"))) ELSE U,
          IF Truthy(Prop(f, "values"))
          THEN (IF IsArray(Prop(f, "values")) THEN Prop(f, "values") ELSE Arr(<<Prop(f, "values")>>))
          ELSE U,
          IF Truthy(Prop(f, "min")) THEN ToNumber(Prop(f, "min")) ELSE U,
          IF Truthy(Prop(f, "max")) THEN ToNumber(Prop(f, "max")) ELSE U,
          IF Truthy(Prop(f, "length")) THEN ToNumber(Prop(f, "length")) ELSE U,
          IF Truthy(Prop(f, "format")) THEN Str(ToStr(Prop(f, "format"))) ELSE U)

\* normalizeFields(fields): fields.map over the raw field objects.  It throws
\* when fields has no map method or when an element is undefined or null.
NormalizeFields(fields) ==
    IF fields.t \in {"undefined", "null"} THEN Throw(NoProperties)
    ELSE IF ~IsArray(fields) THEN Throw(NotIterable)
    ELSE IF \E i \in 1..Len(fields.v) : fields.v[i].t \in {"undefined", "null"}
         THEN Throw(NoProperties)
    ELSE Ok(Arr([i \in 1..Len(fields.v) |-> NormalizeOne(fields.v[i])]))

(***************************************************************************)
(* Schema validation (zod): every violation is collected with its path     *)
(***************************************************************************)
MinCount == 1
MaxCount == 10000
DefaultCount == 10

\* z.number(): a number that is not NaN.
IsZodNumber(x) == x.t = "number"
IsZodString(x) == x.t = "string"

\* a <= b for two numbers.
NumLeq(a, b) == a.v < b.v \/ (a.v = b.v /\ a.frac <= b.frac)

Issue(path, message) == [path |-> path, message |-> message]

\* fieldDefinitionSchema applied to element i (zero-based in the path).
FieldIssues(f, i) ==
    LET at == <<"fields", IntToStr(i)>>
        opt(key, good(_)) ==
            IF f.v[key] = U \/ good(f.v[key]) THEN {}
            ELSE {Issue(at \o <<key>>, "Invalid input")}
    IN  IF f.t # "object" THEN {Issue(at, "Invalid input: expected object")}
        ELSE (IF ~IsZodString(f.v.name) THEN {Issue(at \o <<"name">>, "Invalid input: expected string")}
              ELSE IF Len(f.v.name.v) < 1 THEN {Issue(at \o <<"name">>, "Field name is required")}
              ELSE {})
             \cup (IF IsZodString(f.v.type) /\ f.v.type.v \in SUPPORTED_TYPES THEN {}
                   ELSE {Issue(at \o <<"type">>, "Invalid option")})
             \cup opt("related", IsZodString)
             \cup (IF f.v.values = U THEN {}
                   ELSE IF ~IsArray(f.v.values) THEN {Issue(at \o <<"values">>, "Invalid input: expected array")}
                   ELSE {Issue(at \o <<"values", IntToStr(j - 1)>>, "Invalid input") :
                            j \in {k \in 1..Len(f.v.values.v) :
                                     f.v.values.v[k].t \notin {"string", "number", "boolean"}}})
             \cup opt("min", IsZodNumber)
             \cup opt("max", IsZodNumber)
             \cup opt("length", IsZodNumber)
             \cup opt("format", IsZodString)

\* Variant of CountIssues whose lower bound is 0 instead of 1.
CountIssues_AllowsZero(count) ==
    IF count = U THEN {}
    ELSE IF ~IsZodNumber(count) THEN {Issue(<<"count">>, "Invalid input: expected number")}
    ELSE IF ~NumLeq(Num(0), count) THEN {Issue(<<"count">>, "Too small")}
    ELSE IF ~NumLeq(count, Num(MaxCount)) THEN {Issue(<<"count">>, "Too big")}
    ELSE {}

CountIssues(count) ==
    IF count = U THEN {}
    ELSE IF ~IsZodNumber(count) THEN {Issue(<<"count">>, "Invalid input: expected number")}
    ELSE IF ~NumLeq(Num(MinCount), count) THEN {Issue(<<"count">>, "Too small")}
    ELSE IF ~NumLeq(count, Num(MaxCount)) THEN {Issue(<<"count">>, "Too big")}
    ELSE {}

SeedIssues(seed) ==
    IF seed = U \/ IsZodNumber(seed) THEN {} ELSE {Issue(<<"seed">>, "Invalid input: expected number")}

\* Variant of QueryParamsParse that stops at the first issue it finds.
QueryParamsParse_FailFast(fields, count, seed) ==
    LET issues ==
            (IF ~IsArray(fields) THEN {Issue(<<"fields">>, "Invalid input: expected array")}
             ELSE UNION {FieldIssues(fields.v[i], i - 1) : i \in 1..Len(fields.v)})
            \cup CountIssues(count) \cup SeedIssues(seed)
    IN  IF issues = {}
        THEN Ok([fields |-> fields.v,
                 count |-> IF count = U THEN Num(DefaultCount) ELSE count,
                 seed |-> seed])
        ELSE [ok |-> FALSE, err |-> "ZodError", issues |-> {CHOOSE is \in issues : TRUE}]

\* queryParamsSchema.parse({fields, count, seed}): the validated parameters,
\* or a ZodError holding every issue.
QueryParamsParse(fields, count, seed) ==
    LET issues ==
            (IF ~IsArray(fields) THEN {Issue(<<"fields">>, "Invalid input: expected array")}
             ELSE UNION {FieldIssues(fields.v[i], i - 1) : i \in 1..Len(fields.v)})
            \cup CountIssues(count) \cup SeedIssues(seed)
    IN  IF issues = {}
        THEN Ok([fields |-> fields.v,
                 count |-> IF count = U THEN Num(DefaultCount) ELSE count,
                 seed |-> seed])
        ELSE [ok |-> FALSE, err |-> "ZodError", issues |-> issues]

(***************************************************************************)
(* The value source: faker's seeded generator, Math.random and the clock   *)
(***************************************************************************)
\* The seeded generator has RngMod states and a draw r stands for the
\* fraction r / RngMod; Math.random has MathMod states of its own.
RngMod == 4
MathMod == 3
MaxClock == 1

\* faker.seed(n): the state a seed leads to.
SeedState(seed) == seed.v % RngMod
\* The state after one draw.
Advance(rng) == (rng + 1) % RngMod
AdvanceMath(math) == (math + 1) % MathMod

Ceil(x) == IF x.frac = 0 THEN x.v ELSE x.v + 1
Floor(x) == x.v

\* faker.number.int({min, max}) on draw r: an integer of [ceil(min),
\* floor(max)], or a FakerError when that range is empty.
FakerInt(min, max, r) ==
    IF Floor(max) < Ceil(min) THEN Throw(BadRange)
    ELSE Ok(Num(Ceil(min) + ((r * (Floor(max) - Ceil(min) + 1)) \div RngMod)))

\* The capability tree of the value source, as far as `related` can walk it.
FakerGroups == {"vehicle", "animal", "helpers"}
FakerMethods == {"vehicle.bicycle", "animal.dog", "helpers.arrayElement"}
\* Methods that throw when called without arguments.
FakerThrowing == {"helpers.arrayElement"}

\* related.split('.')
RECURSIVE SplitDots(_)
SplitDots(s) ==
    LET n == CHOOSE k \in 0..Len(s) :
                 /\ \A j \in 1..k : CharAt(s, j) # "."
                 /\ (k = Len(s) \/ CharAt(s, k + 1) = ".")
    IN  IF n = Len(s) THEN <<s>> ELSE <<SubSeq(s, 1, n)>> \o SplitDots(SubSeq(s, n + 2, Len(s)))

\* The for loop over the keys: descend while the value is an object that has
\* the key, and stop at the first key that is not found.
RECURSIVE Walk(_, _)
Walk(path, keys) ==
    IF keys = <<>> THEN path
    ELSE LET child == IF path = "" THEN Head(keys) ELSE path \o "." \o Head(keys)
             isObject == path = "" \/ path \in FakerGroups
         IN  IF isObject /\ child \in FakerGroups \cup FakerMethods
             THEN Walk(child, Tail(keys))
             ELSE path

\* The capability each type's rule calls.
TypeCapability(type) ==
    CASE type = "boolean" -> "datatype.boolean"
      [] type = "email" -> "internet.email"
      [] type = "phone" -> "phone.number"
      [] type = "uuid" -> "string.uuid"
      [] type = "url" -> "internet.url"
      [] type = "image" -> "image.url"
      [] type = "address" -> "location.streetAddress"
      [] type = "city" -> "location.city"
      [] type = "country" -> "location.country"
      [] type = "zipcode" -> "location.zipCode"
      [] type = "firstname" -> "person.firstName"
      [] type = "lastname" -> "person.lastName"
      [] type = "fullname" -> "person.fullName"
      [] type = "username" -> "internet.username"
      [] type = "hexcolor" -> "color.rgb"
      [] type = "credit_card" -> "finance.creditCardNumber"
      [] type = "company" -> "company.name"
      [] type = "job_title" -> "person.jobTitle"
      [] type = "ipv4" -> "internet.ipv4"
      [] type = "ipv6" -> "internet.ipv6"
      [] type = "latitude" -> "location.latitude"
      [] type = "longitude" -> "location.longitude"
      [] type = "sentence" -> "lorem.sentence"
      [] type = "paragraph" -> "lorem.paragraph"
      [] type = "word" -> "lorem.word"
      [] OTHER -> "string.alphanumeric"

DefaultLength == 10
DefaultMin == 0
DefaultMax == 1000
PasswordLength == 12

\* What generateFieldValue did: the value (or the error thrown) and the
\* value source after it.
Made(res, rng, math) == [res |-> res, rng |-> rng, math |-> math]

\* The switch on the type.
TypeRule(f, rng, math, now) ==
    LET type == f.type.v IN
    CASE type = "string" ->
           Made(Ok(Gen("string.alphanumeric",
                       (IF Truthy(f.length) THEN f.length ELSE Num(DefaultLength)).v, rng)),
                Advance(rng), math)
      [] type = "number" ->
           LET n == FakerInt(IF Truthy(f.min) THEN f.min ELSE Num(DefaultMin),
                             IF Truthy(f.max) THEN f.max ELSE Num(DefaultMax), rng)
           IN  Made(n, IF n.ok THEN Advance(rng) ELSE rng, math)
      [] type = "date" -> Made(Ok(Gen("date.recent", now, rng)), Advance(rng), math)
      [] type = "password" ->
           Made(Ok(Gen("internet.password", PasswordLength, rng)), Advance(rng), math)
      [] type \in SUPPORTED_TYPES \ {"string", "number", "date", "password", "enum"} ->
           Made(Ok(Gen(TypeCapability(type), 0, rng)), Advance(rng), math)
      [] OTHER -> Made(Ok(Gen("string.alphanumeric", DefaultLength, rng)), Advance(rng), math)

\* Variant of RandomIndex that rounds up: Math.ceil(Math.random() * length).
RandomIndex_RoundsUp(math, length) == ((math * length) + MathMod - 1) \div MathMod

\* Math.floor(Math.random() * length)
RandomIndex(math, length) == (math * length) \div MathMod

\* q[i] for a zero-based index: undefined outside the array.
ElementAt(q, i) == IF i + 1 \in 1..Len(q) THEN q[i + 1] ELSE U

\* Variant of GenerateFieldValue that looks at `related` before it looks at
\* the enum values.
GenerateFieldValue_RelatedFirst(f, rng, math, now) ==
    IF Truthy(f.related) /\ Walk("", SplitDots(f.related.v)) \in FakerMethods \ FakerThrowing
    THEN Made(Ok(Gen(Walk("", SplitDots(f.related.v)), 0, rng)), Advance(rng), math)
    ELSE IF f.type.v = "enum" /\ Truthy(f.values) /\ Len(f.values.v) > 0
    THEN Made(Ok(ElementAt(f.values.v, RandomIndex(math, Len(f.values.v)))), rng, AdvanceMath(math))
    ELSE IF Truthy(f.related) /\ Walk("", SplitDots(f.related.v)) \notin FakerMethods
    THEN Made(Ok(Capability(Walk("", SplitDots(f.related.v)))), rng, math)
    ELSE TypeRule(f, rng, math, now)

\* Variant of GenerateFieldValue that cannot generate an enum without values.
GenerateFieldValue_EnumNeedsValues(f, rng, math, now) ==
    IF f.type.v = "enum" /\ ~(Truthy(f.values) /\ Len(f.values.v) > 0)
    THEN Made(Throw("Error: enum without values"), rng, math)
    ELSE IF f.type.v = "enum"
    THEN Made(Ok(ElementAt(f.values.v, RandomIndex(math, Len(f.values.v)))), rng, AdvanceMath(math))
    ELSE IF Truthy(f.related)
    THEN LET value == Walk("", SplitDots(f.related.v))
         IN  IF value \in FakerMethods
             THEN (IF value \in FakerThrowing
                   THEN TypeRule(f, rng, math, now)
                   ELSE Made(Ok(Gen(value, 0, rng)), Advance(rng), math))
             ELSE Made(Ok(Capability(value)), rng, math)
    ELSE TypeRule(f, rng, math, now)

\* generateFieldValue(field) for a validated descriptor f (the attribute
\* record), from value source state (rng, math) at clock now.
GenerateFieldValue(f, rng, math, now) ==
    IF f.type.v = "enum" /\ Truthy(f.values) /\ Len(f.values.v) > 0
    THEN Made(Ok(ElementAt(f.values.v, RandomIndex(math, Len(f.values.v)))), rng, AdvanceMath(math))
    ELSE IF Truthy(f.related)
    THEN LET value == Walk("", SplitDots(f.related.v))
         IN  IF value \in FakerMethods
             THEN (IF value \in FakerThrowing
                   THEN TypeRule(f, rng, math, now)
                   ELSE Made(Ok(Gen(value, 0, rng)), Advance(rng), math))
             ELSE Made(Ok(Capability(value)), rng, math)
    ELSE TypeRule(f, rng, math, now)

(***************************************************************************)
(* Rows: objects whose keys enumerate as JavaScript enumerates them        *)
(***************************************************************************)
\* A canonical array index: "0", or digits without a leading zero.
IsArrayIndex(key) ==
    /\ key # ""
    /\ DigitRun(key, 1) = Len(key)
    /\ (Len(key) = 1 \/ CharAt(key, 1) # "0")

RowKeys(row) == [i \in 1..Len(row) |-> row[i][1]]
HasKey(row, key) == \E i \in 1..Len(row) : row[i][1] = key
RowGet(row, key) == row[CHOOSE i \in 1..Len(row) : row[i][1] = key][2]

\* Variant of RowSet that keeps a list of columns: every assignment adds one.
RowSet_Appends(row, key, value) == Append(row, <<key, value>>)

\* row[key] = value on a plain object: an existing key keeps its place, a new
\* array index goes among the indices in ascending order, any other new key
\* goes last; "__proto__" is the prototype setter and adds no key.
RowSet(row, key, value) ==
    IF key = "__proto__" THEN row
    ELSE IF HasKey(row, key)
    THEN [i \in 1..Len(row) |-> IF row[i][1] = key THEN <<key, value>> ELSE row[i]]
    ELSE IF IsArrayIndex(key)
    THEN LET before == SelectSeq(row, LAMBDA c : IsArrayIndex(c[1]) /\ DigitsValue(c[1]) < DigitsValue(key))
             after == SelectSeq(row, LAMBDA c : ~(IsArrayIndex(c[1]) /\ DigitsValue(c[1]) < DigitsValue(key)))
         IN  before \o <<(<<key, value>>)>> \o after
    ELSE Append(row, <<key, value>>)

\* Variant of BuildRow that generates a value only for the last field of
\* each name: a field whose name comes again later is passed over.
RECURSIVE BuildRow_SkipsOverwritten(_, _, _, _, _, _)
BuildRow_SkipsOverwritten(fields, k, row, rng, math, now) ==
    IF k > Len(fields) THEN [ok |-> TRUE, row |-> row, rng |-> rng, math |-> math]
    ELSE IF \E j \in (k + 1)..Len(fields) : fields[j].v.name = fields[k].v.name
    THEN BuildRow_SkipsOverwritten(fields, k + 1, row, rng, math, now)
    ELSE LET g == GenerateFieldValue(fields[k].v, rng, math, now)
         IN  IF ~g.res.ok THEN [ok |-> FALSE, err |-> g.res.err, rng |-> g.rng, math |-> g.math]
             ELSE BuildRow_SkipsOverwritten(fields, k + 1, RowSet(row, fields[k].v.name.v, g.res.v),
                                            g.rng, g.math, now)

\* The inner loop of generateMockData: the fields from position k on, in
\* schema order, each assigned into the row.  A field that throws ends it.
RECURSIVE BuildRow(_, _, _, _, _, _)
BuildRow(fields, k, row, rng, math, now) ==
    IF k > Len(fields) THEN [ok |-> TRUE, row |-> row, rng |-> rng, math |-> math]
    ELSE LET g == GenerateFieldValue(fields[k].v, rng, math, now)
         IN  IF ~g.res.ok THEN [ok |-> FALSE, err |-> g.res.err, rng |-> g.rng, math |-> g.math]
             ELSE BuildRow(fields, k + 1, RowSet(row, fields[k].v.name.v, g.res.v), g.rng, g.math, now)

(***************************************************************************)
(* The GET and POST /generate handlers up to validation                    *)
(***************************************************************************)
\* A query as the handler receives it: fields is the plain `fields` entry,
\* qsFields is what the entries in bracket notation (fields[0][name]=...)
\* parse to, count and seed are texts; an absent entry is U.
Query(fields, qsFields, count, seed) ==
    [fields |-> fields, qsFields |-> qsFields, count |-> count, seed |-> seed]
NoQuery == Query(U, U, U, U)
Body(fields, count, seed) == Obj([fields |-> fields, count |-> count, seed |-> seed])

\* qs.parse of the query string rebuilt from the query's entries.
QsParse(query) ==
    [fields |-> IF query.qsFields # U THEN query.qsFields ELSE query.fields,
     count |-> query.count,
     seed |-> query.seed]

\* JSON.parse of a string: the value a JSON text holds; any other text is
\* JSON only when it is a number literal.
JsonParse(x) ==
    IF x.t = "json" THEN Ok(x.v)
    ELSE IF x.v # "" /\ StringToNumber(x.v) # NaN THEN Ok(StringToNumber(x.v))
    ELSE Throw("SyntaxError")

\* The try/catch around JSON.parse.
ParseFieldsText(x) ==
    IF JsonParse(x).ok THEN JsonParse(x) ELSE Throw(InvalidFieldsFormat)

RequireArray(fields) == IF IsArray(fields) THEN Ok(fields) ELSE Throw(InvalidFieldsFormat)

\* A statement of the try block runs only if nothing before it has thrown.
NormalizeNext(r) == IF r.ok THEN NormalizeFields(r.v) ELSE r
RequireArrayNext(r) == IF r.ok THEN RequireArray(r.v) ELSE r
ValidateNext(r, count, seed) == IF r.ok THEN QueryParamsParse(r.v, count, seed) ELSE r

\* The query flow: bracket notation first, then the JSON text, then a second
\* normalization and the array check.
QueryFields(query) ==
    LET parsedWithQS == QsParse(query)
        first ==
            IF Truthy(parsedWithQS.fields) /\ IsArray(parsedWithQS.fields)
            THEN NormalizeFields(parsedWithQS.fields)
            ELSE IF TypeOf(query.fields) = "string" THEN ParseFieldsText(query.fields)
            ELSE Ok(query.fields)
    IN  NormalizeNext(first)

\* Variant of GetCount that asks for one row when no count is given.
GetCount_DefaultsToOne(query) ==
    LET parsedWithQS == QsParse(query)
    IN  IF Truthy(parsedWithQS.count) THEN ParseInt(ToStr(parsedWithQS.count))
        ELSE IF Truthy(query.count) THEN ParseInt(query.count.v)
        ELSE Num(1)

GetCount(query) ==
    LET parsedWithQS == QsParse(query)
    IN  IF Truthy(parsedWithQS.count) THEN ParseInt(ToStr(parsedWithQS.count))
        ELSE IF Truthy(query.count) THEN ParseInt(query.count.v)
        ELSE Num(DefaultCount)

GetSeed(query) ==
    LET parsedWithQS == QsParse(query)
    IN  IF Truthy(parsedWithQS.seed) THEN ParseInt(ToStr(parsedWithQS.seed))
        ELSE IF Truthy(query.seed) THEN ParseInt(query.seed.v)
        ELSE U

\* GET /generate from the query to the validated parameters.
GetValidated(query) ==
    ValidateNext(RequireArrayNext(QueryFields(query)), GetCount(query), GetSeed(query))

\* Variant of PostFields that prefers the query's fields to the body's.
PostFields_QueryFirst(query, body) ==
    LET bodyFields == IF body.t \in {"undefined", "null"} THEN U ELSE Prop(body, "fields")
        fields ==
            IF query.fields # U \/ query.qsFields # U THEN QueryFields(query)
            ELSE IF Truthy(bodyFields) /\ IsArray(bodyFields) THEN NormalizeFields(bodyFields)
            ELSE IF Truthy(body) /\ TypeOf(bodyFields) = "string" THEN ParseFieldsText(bodyFields)
            ELSE QueryFields(query)
    IN  RequireArrayNext(fields)

\* POST /generate: the body's fields first (an array, then a JSON text), the
\* query flow otherwise.
PostFields(query, body) ==
    LET bodyFields == IF body.t \in {"undefined", "null"} THEN U ELSE Prop(body, "fields")
        fields ==
            IF Truthy(bodyFields) /\ IsArray(bodyFields) THEN NormalizeFields(bodyFields)
            ELSE IF Truthy(body) /\ TypeOf(bodyFields) = "string" THEN ParseFieldsText(bodyFields)
            ELSE QueryFields(query)
    IN  RequireArrayNext(fields)

PostCount(query, body) ==
    IF Truthy(body) /\ Prop(body, "count") # U THEN ToNumber(Prop(body, "count"))
    ELSE IF Truthy(query.count) THEN ParseInt(query.count.v)
    ELSE Num(DefaultCount)

PostSeed(query, body) ==
    IF Truthy(body) /\ Prop(body, "seed") # U THEN ToNumber(Prop(body, "seed"))
    ELSE IF Truthy(query.seed) THEN ParseInt(query.seed.v)
    ELSE U

PostValidated(query, body) ==
    ValidateNext(PostFields(query, body), PostCount(query, body), PostSeed(query, body))

\* The route's body schema: the POST handler runs on bodies that pass it.
RouteBodyOk(body) ==
    /\ body.t = "object"
    /\ QueryParamsParse(body.v.fields, body.v.count, body.v.seed).ok

(***************************************************************************)
(* Responses                                                               *)
(***************************************************************************)
NoResponse == [t |-> "none"]
ErrorText == "Failed to generate mock data"

\* serializeResponse: SuperJSON.parse(SuperJSON.stringify(data)) gives back
\* the plain data it was given.
SerializeResponse(data) == data

Success(data) == SerializeResponse([success |-> TRUE, count |-> Len(data), data |-> data])

\* Variant of Failure whose catch block handles a ZodError and rethrows
\* everything else.
Failure_ZodOnly(r) ==
    IF r.err = "ZodError"
    THEN [success |-> FALSE, error |-> ErrorText,
          details |-> [t |-> "tree", issues |-> r.issues]]
    ELSE [t |-> "uncaught", err |-> r.err]

\* The catch block: a ZodError is reported as the tree of its issues, any
\* other error as its text.
Failure(r) ==
    SerializeResponse(
        [success |-> FALSE,
         error |-> ErrorText,
         details |-> IF r.err = "ZodError" THEN [t |-> "tree", issues |-> r.issues]
                     ELSE Str(r.err)])

(***************************************************************************)
(* Requests a client can send                                              *)
(***************************************************************************)
\* What qs.stringify on the client and qs.parse on the server make of a
\* value: every scalar arrives as text, null as empty text, and an absent
\* attribute or an empty array does not arrive at all.
QsScalar(x) == IF x.t = "null" THEN Str("") ELSE Str(ToStr(x))
QsAttr(x) ==
    IF x = U THEN U
    ELSE IF IsArray(x)
    THEN (IF x.v = <<>> THEN U ELSE Arr([j \in 1..Len(x.v) |-> QsScalar(x.v[j])]))
    ELSE QsScalar(x)
QsElement(f) ==
    IF f.t = "object" THEN Obj([k \in DOMAIN f.v |-> QsAttr(f.v[k])]) ELSE QsScalar(f)
QsFields(schema) ==
    IF schema.v = <<>> THEN U ELSE Arr([j \in 1..Len(schema.v) |-> QsElement(schema.v[j])])
QsText(x) == IF x = U THEN U ELSE QsScalar(x)

\* A request: the method, the query and the body as the handler receives
\* them, and (for reference) the schema, count and seed the client encoded.
Request(method, enc, query, body, schema, count, seed) ==
    [method |-> method, enc |-> enc, query |-> query, body |-> body,
     schema |-> schema, count |-> count, seed |-> seed]

\* The encodings of one schema with a count and a seed (numbers or U).
GetJson(schema, count, seed) ==
    Request("GET", "json", Query(JsonText(schema), U, QsText(count), QsText(seed)), U,
            schema, count, seed)
GetQs(schema, count, seed) ==
    Request("GET", "qs", Query(U, QsFields(schema), QsText(count), QsText(seed)), U,
            schema, count, seed)
PostBodyArray(schema, count, seed) ==
    Request("POST", "body", NoQuery, Body(schema, count, seed), schema, count, seed)
PostBodyText(schema, count, seed) ==
    Request("POST", "bodytext", NoQuery, Body(JsonText(schema), count, seed), schema, count, seed)
PostQueryJson(schema, count, seed) ==
    Request("POST", "json", Query(JsonText(schema), U, QsText(count), QsText(seed)), U,
            schema, count, seed)
PostQueryQs(schema, count, seed) ==
    Request("POST", "qs", Query(U, QsFields(schema), QsText(count), QsText(seed)), U,
            schema, count, seed)

Plain(name, type) == Field(Str(name), Str(type), U, U, U, U, U, U)

NameFields ==
    {Field(n, Str("uuid"), U, U, U, U, U, U) :
        n \in {U, Str(""), Str(" "), Str("a"), Str("1"), Str("__proto__"), Num(5)}}
NumberFields ==
    {Field(Str("a"), Str("number"), U, U, mn, mx, U, U) :
        mn \in {U, Num(-5), Num(0), Num(3)}, mx \in {U, Num(0), Num(2), Num(3)}}
EnumFields ==
    {Field(Str("a"), Str("enum"), rel, vals, U, U, U, U) :
        rel \in {U, Str("animal.dog"), Str("helpers.arrayElement"), Str("nope.x")},
        vals \in {U, Arr(<<>>), Arr(<<Str("x"), Str("y")>>), Arr(<<Num(1), Bool(TRUE)>>), Str("x")}}
StringFields ==
    {Field(Str("a"), Str("string"), rel, U, U, U, len, U) :
        rel \in {U, Str("vehicle.bicycle"), Str("vehicle"), Str("nope.x"), Str("helpers.arrayElement")},
        len \in {U, Num(0), Num(3)}}
TypeFields ==
    {Field(Str("a"), t, U, U, U, U, U, U) : t \in {U, Str("bogus"), Str("date"), Str("password")}}

SingleSchemas ==
    {Arr(<<f>>) : f \in NameFields \cup NumberFields \cup EnumFields \cup StringFields \cup TypeFields}
PairSchemas ==
    {Arr(<<Plain(n1, "uuid"), f2>>) :
        n1 \in {"a", "b", "2", "__proto__"},
        f2 \in {Plain("a", "word"), Plain("1", "word"), Plain("b", "word"),
                Field(Str("a"), Str("enum"), U, Arr(<<Str("x"), Str("y")>>), U, U, U, U)}}
OddSchemas == {Arr(<<>>), Arr(<<Num(1)>>), Arr(<<Null>>), Arr(<<Plain("a", "uuid"), Null>>)}
Schemas == SingleSchemas \cup PairSchemas \cup OddSchemas

\* Schemas with more than one thing wrong.
InvalidSchemas ==
    {Arr(<<Field(U, Str("uuid"), U, U, U, U, U, U), Field(Str("b"), Str("bogus"), U, U, U, U, U, U)>>),
     Arr(<<Field(Str(""), Str("bogus"), U, U, U, U, U, U), Plain("b", "uuid")>>)}
BaseSchemas == {Arr(<<Plain("a", "uuid")>>), Arr(<<Field(U, Str("uuid"), U, U, U, U, U, U)>>)}
Counts == {U, Num(0), Num(1), Num(2), Frac(2, 5), Num(10001), Num(-1)}
Seeds == {U, Num(0), Num(7)}

\* A `fields` entry that is not an encoded array at all.
BadFields ==
    {U, Str("invalid"), Str(""), Str("5"), JsonText(Null),
     JsonText(Obj([name |-> Str("a"), type |-> Str("uuid")]))}
\* Count and seed texts that are not what a number prints as.
BadTexts == {Str("abc"), Str("")}

\* POST requests that carry fields, count and seed in the query and fields
\* (with or without count and seed) in the body as well.
BothQueries ==
    {Query(JsonText(Arr(<<Plain("b", "word")>>)), U, Str("1"), Str("7")),
     Query(U, QsFields(Arr(<<Plain("b", "word")>>)), Str("1"), Str("7"))}
BothBodies ==
    {Body(bf, c, sd) :
        bf \in {Arr(<<Plain("a", "uuid")>>), JsonText(Arr(<<Plain("a", "uuid")>>)),
                Arr(<<>>), Str("invalid"), Str("")},
        c \in {U, Num(2)}, sd \in {U, Num(0)}}

\* Every schema in both query encodings and as a body array; the other POST
\* encodings, every count and every seed on the base schemas.
GetRequests ==
    {GetJson(sc, Num(2), sd) : sc \in Schemas, sd \in {U, Num(7)}}
    \cup {GetQs(sc, Num(2), sd) : sc \in Schemas, sd \in {U, Num(7)}}
    \cup {GetJson(sc, c, sd) : sc \in BaseSchemas, c \in Counts, sd \in Seeds}
    \cup {GetQs(sc, c, sd) : sc \in BaseSchemas, c \in Counts, sd \in Seeds}
    \cup {GetJson(sc, c, U) : sc \in InvalidSchemas, c \in {Num(2), Num(0), Num(10001)}}
    \cup {GetQs(sc, c, U) : sc \in InvalidSchemas, c \in {Num(2), Num(0), Num(10001)}}
    \cup {Request("GET", "raw", Query(b, U, Str("2"), sd), U, U, Num(2), U) :
            b \in BadFields, sd \in {U, Str("7")}}
    \cup {Request("GET", "raw", Query(JsonText(Arr(<<Plain("a", "uuid")>>)), U, c, sd), U, U, U, U) :
            c \in BadTexts \cup {Str("1")}, sd \in BadTexts \cup {Str("7")}}

PostRequests ==
    {PostBodyArray(sc, Num(2), Num(7)) : sc \in Schemas}
    \cup {PostBodyArray(sc, c, sd) : sc \in BaseSchemas, c \in Counts, sd \in Seeds}
    \cup {PostBodyArray(sc, c, U) : sc \in InvalidSchemas, c \in {Num(2), Num(0), Num(10001)}}
    \cup {PostBodyText(sc, Num(2), sd) : sc \in BaseSchemas \cup OddSchemas, sd \in {U, Num(7)}}
    \cup {PostQueryJson(sc, c, U) : sc \in BaseSchemas, c \in Counts}
    \cup {PostQueryQs(sc, Num(2), sd) : sc \in BaseSchemas \cup OddSchemas, sd \in {U, Num(7)}}
    \cup {Request("POST", "both", q, b, U, U, U) : q \in BothQueries, b \in BothBodies}
    \cup {Request("POST", "raw", Query(b, U, Str("2"), U), U, U, Num(2), U) : b \in BadFields}
    \cup {Request("POST", "raw", NoQuery, Body(b, Num(2), U), U, Num(2), U) : b \in BadFields}
    \cup {Request("POST", "raw", Query(JsonText(Arr(<<Plain("a", "uuid")>>)), U, c, sd), U, U, U, U) :
            c \in BadTexts, sd \in BadTexts \cup {Str("7")}}

(***************************************************************************)
(* The service: one request at a time, from receipt to response            *)
(***************************************************************************)
VARIABLES
    rng,        \* state of faker's seeded generator (process-wide)
    math,       \* state of Math.random (process-wide)
    now,        \* the clock
    pc,         \* "idle", "seed", "rows" or "done"
    req,        \* the request being handled
    params,     \* its validated parameters
    results,    \* the rows generated so far
    response,   \* the response returned
    entry,      \* the value source as the request found it
    seedCalls,  \* calls of faker.seed made for this request
    made,       \* rows completed before its latest call of faker.seed
    ref,        \* a seeded request answered earlier, kept for comparison
    raw,        \* the argument of the latest direct call of normalizeFields
    normalized  \* what that call returned or threw

vars == <<rng, math, now, pc, req, params, results, response, entry, seedCalls, made, ref, raw, normalized>>

None == [t |-> "none"]

Init ==
    /\ rng \in 0..(RngMod - 1)
    /\ math \in 0..(MathMod - 1)
    /\ now = 0
    /\ pc = "idle"
    /\ req = None
    /\ params = None
    /\ results = <<>>
    /\ response = NoResponse
    /\ entry = None
    /\ seedCalls = 0
    /\ made = 0
    /\ ref = None
    /\ raw = None
    /\ normalized = None

\* Variant of Handle that seeds the value source from the request's seed
\* before it validates anything.
Handle_SeedsFirst(r, validated) ==
    /\ pc = "idle"
    /\ req' = r
    /\ entry' = [rng |-> rng, math |-> math]
    /\ rng' = IF r.seed # U THEN SeedState(r.seed) ELSE rng
    /\ IF validated.ok
       THEN /\ params' = validated.v
            /\ pc' = "seed"
            /\ response' = NoResponse
       ELSE /\ params' = None
            /\ pc' = "done"
            /\ response' = Failure(validated)
    /\ UNCHANGED <<math, now, results, seedCalls, made, ref, raw, normalized>>

\* The handler from its first line to the call of generateMockData: the
\* validated parameters go on to generation, anything thrown goes to the
\* catch block and is the response.
Handle(r, validated) ==
    /\ pc = "idle"
    /\ req' = r
    /\ entry' = [rng |-> rng, math |-> math]
    /\ IF validated.ok
       THEN /\ params' = validated.v
            /\ pc' = "seed"
            /\ response' = NoResponse
       ELSE /\ params' = None
            /\ pc' = "done"
            /\ response' = Failure(validated)
    /\ UNCHANGED <<rng, math, now, results, seedCalls, made, ref, raw, normalized>>

\* GET /generate on any query a client can send.
GetGenerate ==
    /\ pc = "idle"
    /\ \E r \in GetRequests : Handle(r, GetValidated(r.query))

\* POST /generate on any query and body a client can send.
PostGenerate ==
    /\ pc = "idle"
    /\ \E r \in PostRequests : Handle(r, PostValidated(r.query, r.body))

\* Variant of SeedSource that tests the seed for truthiness: if (seed).
SeedSource_Truthy ==
    /\ pc = "seed"
    /\ IF Truthy(params.seed)
       THEN /\ rng' = SeedState(params.seed)
            /\ seedCalls' = seedCalls + 1
            /\ made' = Len(results)
       ELSE UNCHANGED <<rng, seedCalls, made>>
    /\ pc' = "rows"
    /\ UNCHANGED <<math, now, req, params, results, response, entry, ref, raw, normalized>>

\* generateMockData, first statement: seed the value source if a seed is given.
SeedSource ==
    /\ pc = "seed"
    /\ IF params.seed # U
       THEN /\ rng' = SeedState(params.seed)
            /\ seedCalls' = seedCalls + 1
            /\ made' = Len(results)
       ELSE UNCHANGED <<rng, seedCalls, made>>
    /\ pc' = "rows"
    /\ UNCHANGED <<math, now, req, params, results, response, entry, ref, raw, normalized>>

\* i < count for the loop counter i and the validated count.
LoopContinues(i, count) == ~NumLeq(count, Num(i))

\* generateMockData as one call: the rows pushed from the given state of the
\* value source on, or the error of the first value that throws.
RECURSIVE GenerateMockData(_, _, _, _, _, _)
GenerateMockData(fields, count, rows, source, random, clock) ==
    IF ~LoopContinues(Len(rows), count) THEN Ok(rows)
    ELSE LET b == BuildRow(fields, 1, <<>>, source, random, clock)
         IN  IF ~b.ok THEN Throw(b.err)
             ELSE GenerateMockData(fields, count, Append(rows, b.row), b.rng, b.math, clock)

\* Variant of GenerateRow with a suspension point before every row, where
\* another request may have drawn from the value source.
GenerateRow_Suspends ==
    /\ pc = "rows"
    /\ LoopContinues(Len(results), params.count)
    /\ \E drawn \in 0..1 :
        LET b == BuildRow(params.fields, 1, <<>>, (rng + drawn) % RngMod, math, now)
        IN  /\ rng' = b.rng
            /\ math' = b.math
            /\ IF b.ok
               THEN /\ results' = Append(results, b.row)
                    /\ UNCHANGED <<pc, response>>
               ELSE /\ pc' = "done"
                    /\ response' = Failure(b)
                    /\ UNCHANGED results
    /\ UNCHANGED <<now, req, params, entry, seedCalls, made, ref, raw, normalized>>

\* One pass of the outer loop: a row is built and pushed; a value that throws
\* ends the request in the catch block.
GenerateRow ==
    /\ pc = "rows"
    /\ LoopContinues(Len(results), params.count)
    /\ LET b == BuildRow(params.fields, 1, <<>>, rng, math, now)
       IN  /\ rng' = b.rng
           /\ math' = b.math
           /\ IF b.ok
              THEN /\ results' = Append(results, b.row)
                   /\ UNCHANGED <<pc, response>>
              ELSE /\ pc' = "done"
                   /\ response' = Failure(b)
                   /\ UNCHANGED results
    /\ UNCHANGED <<now, req, params, entry, seedCalls, made, ref, raw, normalized>>

\* The loop is over: generateMockData returns and the handler responds.
Respond ==
    /\ pc = "rows"
    /\ ~LoopContinues(Len(results), params.count)
    /\ pc' = "done"
    /\ response' = Success(results)
    /\ UNCHANGED <<rng, math, now, req, params, results, entry, seedCalls, made, ref, raw, normalized>>

\* The response is sent and everything request-scoped is dropped.
Finish ==
    /\ pc = "done"
    /\ pc' = "idle"
    /\ req' = None
    /\ params' = None
    /\ results' = <<>>
    /\ response' = NoResponse
    /\ entry' = None
    /\ seedCalls' = 0
    /\ made' = 0
    /\ UNCHANGED <<rng, math, now, ref, raw, normalized>>

\* Time passes between requests.
Tick ==
    /\ pc = "idle"
    /\ now < MaxClock
    /\ now' = now + 1
    /\ UNCHANGED <<rng, math, pc, req, params, results, response, entry, seedCalls, made, ref, raw, normalized>>

Next ==
    \/ GetGenerate
    \/ PostGenerate
    \/ SeedSource
    \/ GenerateRow
    \/ Respond
    \/ Finish
    \/ Tick

Spec == Init /\ [][Next]_vars

(***************************************************************************)
(* The same service with an observer that keeps one seeded answer, on a    *)
(* smaller set of requests, for comparing two requests of one behaviour    *)
(***************************************************************************)
DetSchemas ==
    {Arr(<<Plain("a", "uuid")>>),
     Arr(<<Plain("a", "date")>>),
     Arr(<<Field(Str("a"), Str("enum"), U, Arr(<<Str("x"), Str("y")>>), U, U, U, U)>>),
     Arr(<<Plain("a", "uuid"), Field(Str("b"), Str("number"), U, U, Num(3), U, U, U)>>)}
DetGetRequests ==
    {GetJson(sc, c, sd) : sc \in DetSchemas, c \in {Num(1), Num(2)}, sd \in {U, Num(7)}}
DetPostRequests ==
    {PostBodyArray(sc, Num(2), sd) : sc \in DetSchemas, sd \in {U, Num(0)}}

GetGenerateDet ==
    /\ pc = "idle"
    /\ \E r \in DetGetRequests : Handle(r, GetValidated(r.query))

PostGenerateDet ==
    /\ pc = "idle"
    /\ \E r \in DetPostRequests : Handle(r, PostValidated(r.query, r.body))

\* The observer keeps the parameters and the rows of a seeded request that
\* was just answered.
Snapshot ==
    /\ pc = "done"
    /\ response.success
    /\ params.seed # U
    /\ ref' = [params |-> params, data |-> response.data]
    /\ ref' # ref
    /\ UNCHANGED <<rng, math, now, pc, req, params, results, response, entry, seedCalls, made,
                   raw, normalized>>

NextDet ==
    \/ GetGenerateDet
    \/ PostGenerateDet
    \/ SeedSource
    \/ GenerateRow
    \/ Respond
    \/ Finish
    \/ Tick
    \/ Snapshot

SpecDet == Init /\ [][NextDet]_vars

(***************************************************************************)
(* normalizeFields called on its own, on raw field objects as a query      *)
(* string or a JSON body can deliver them                                  *)
(***************************************************************************)
\* A raw numeric attribute: absent, empty, a number or a text.
RawNumbers == {U, Str(""), Num(0), Num(3), Str("0"), Str("3"), Str("abc")}
\* A raw `values`: absent, empty, a sequence or a bare scalar.
RawValues ==
    {U, Str(""), Arr(<<>>), Arr(<<Str("x"), Str("y")>>), Arr(<<Num(1), Bool(TRUE)>>),
     Str("x"), Num(5), Num(0), Bool(TRUE), Bool(FALSE)}
RawFields ==
    {Field(Str("a"), Str("number"), U, U, mn, mx, len, U) :
        mn \in RawNumbers, mx \in RawNumbers, len \in RawNumbers}
    \cup {Field(Str("a"), Str("enum"), rel, vals, U, U, U, fmt) :
            rel \in {U, Str("animal.dog"), Num(5)}, vals \in RawValues, fmt \in {U, Str(""), Num(0)}}

\* One call of normalizeFields, on a list of one or two raw fields or on
\* something that is no list of objects.
Normalize ==
    /\ raw = None
    /\ \E fields \in {Arr(<<f>>) : f \in RawFields}
                     \cup {Arr(<<f, Plain("b", "uuid")>>) : f \in RawFields}
                     \cup {U, Null, Str("invalid"), Arr(<<>>), Arr(<<Null>>)} :
          /\ raw' = fields
          /\ normalized' = NormalizeFields(fields)
    /\ UNCHANGED <<rng, math, now, pc, req, params, results, response, entry, seedCalls, made, ref>>

NextNorm == Normalize \/ Tick

SpecNorm == Init /\ [][NextNorm]_vars

(***************************************************************************)
(* Properties of the service                                               *)
(***************************************************************************)
Succeeded == pc = "done" /\ response.success

\* The request reached the handler: a POST body passed the route's schema.
Routed == req.method = "GET" \/ RouteBodyOk(req.body)

Names(fields) == [i \in 1..Len(fields) |-> fields[i].v.name.v]
\* No later descriptor of the schema writes the column of descriptor i.
LastNamed(fields, i) == \A j \in (i + 1)..Len(fields) : fields[j].v.name # fields[i].v.name
FirstAt(names, key) ==
    CHOOSE i \in 1..Len(names) : names[i] = key /\ \A j \in 1..(i - 1) : names[j] # key

\* C1: a validated request with count N is answered with exactly N rows, and
\* the response's count field equals N and the length of data, on GET and POST.
C1_RowsEqualCount ==
    (Succeeded /\ Routed) =>
        /\ Num(Len(response.data)) = params.count
        /\ Num(response.count) = params.count

C3_SameSeedSameRows ==
    (Succeeded /\ ref # None /\ ref.params = params) => response.data = ref.data

\* C4: a number field with min <= max (a bound not given defaults, min to 0
\* and max to 1000; a given 0 counts as 0) only gets integers v with
\* min <= v <= max.
C4_NumberWithinBounds ==
    (Succeeded /\ Routed /\ req.schema # U) =>
        \A r \in 1..Len(response.data) : \A i \in 1..Len(req.schema.v) :
            LET f == req.schema.v[i]
                lo == IF f.v.min = U THEN Num(DefaultMin) ELSE f.v.min
                hi == IF f.v.max = U THEN Num(DefaultMax) ELSE f.v.max
                v == RowGet(response.data[r], f.v.name.v)
            IN  (f.v.type = Str("number") /\ f.v.related = U /\ NumLeq(lo, hi)
                 /\ LastNamed(req.schema.v, i)) =>
                    v.t = "number" /\ v.frac = 0 /\ NumLeq(lo, v) /\ NumLeq(v, hi)

\* C5: an enum field with non-empty values gets, in every row, a member of
\* its values, whichever encoding the schema arrived in.
C5_EnumValueIsMember ==
    Succeeded =>
        \A r \in 1..Len(response.data) : \A i \in 1..Len(params.fields) :
            LET f == params.fields[i].v
            IN  (f.type = Str("enum") /\ IsArray(f.values) /\ f.values.v # <<>>
                 /\ f.name.v # "__proto__" /\ LastNamed(params.fields, i)) =>
                    \E j \in 1..Len(f.values.v) :
                        RowGet(response.data[r], f.name.v) = f.values.v[j]

C5_EnumPickedFromArrayNotation ==
    /\ Succeeded
    /\ req.enc = "qs"
    /\ params.fields[1].v.type = Str("enum")
    /\ Len(response.data) = 2
    /\ RowGet(response.data[1], "a") = Str("x")
    /\ RowGet(response.data[2], "a") = Str("y")

\* What the client asked for, read off the schema, count and seed it encoded.
AsksBadCount ==
    req.count # U /\ (req.count = Num(0) \/ ~NumLeq(req.count, Num(MaxCount)))
AsksNamelessField ==
    /\ req.schema # U
    /\ \E i \in 1..Len(req.schema.v) :
          req.schema.v[i].t = "object" /\ Prop(req.schema.v[i], "name") = U
AsksUnknownType ==
    /\ req.schema # U
    /\ \E i \in 1..Len(req.schema.v) :
          /\ req.schema.v[i].t = "object"
          /\ Prop(req.schema.v[i], "type") \notin {Str(t) : t \in SUPPORTED_TYPES}

\* C6: a request with count 0, with a count above 10000, with a field
\* without name or with a field of unsupported type never reaches generation
\* and is answered with a validation failure, never with success.
C6_BoundaryRequestsRejected ==
    (pc # "idle" /\ (AsksBadCount \/ AsksNamelessField \/ AsksUnknownType)) =>
        /\ pc = "done"
        /\ results = <<>>
        /\ response.success = FALSE
        /\ response.details.t = "tree"

C6_ZeroCountRejected ==
    /\ pc = "done"
    /\ req.method = "GET"
    /\ req.count = Num(0)
    /\ ~AsksNamelessField
    /\ response.success = FALSE
    /\ response.details = [t |-> "tree", issues |-> {Issue(<<"count">>, "Too small")}]

\* C7: whatever the caller sends, the handler ends with a structured
\* result: a boolean success, with count and data on success and with error
\* and details on failure; nothing thrown on the way leaves the handler, and
\* generation only ever runs on validated parameters.
C7_AlwaysStructuredResult ==
    /\ pc = "done" =>
          /\ "success" \in DOMAIN response
          /\ response.success \in BOOLEAN
          /\ response.success =>
                /\ DOMAIN response = {"success", "count", "data"}
                /\ response.count = Len(response.data)
          /\ ~response.success =>
                /\ DOMAIN response = {"success", "error", "details"}
                /\ response.error = ErrorText
                /\ response.details # U
    /\ pc \in {"seed", "rows"} =>
          /\ params # None
          /\ response = NoResponse

C7_GenerationErrorReported ==
    /\ pc = "done"
    /\ response.success = FALSE
    /\ response.details = Str(BadRange)

\* C8: a request that ends with a format or validation failure leaves the
\* value source as it found it, seeded or unseeded: not seeded, not advanced.
C8_FailureLeavesSourceUntouched ==
    (/\ pc = "done"
     /\ ~response.success
     /\ \/ response.details.t = "tree"
        \/ response.details \in {Str(InvalidFieldsFormat), Str(NotIterable), Str(NoProperties)}) =>
        /\ rng = entry.rng
        /\ math = entry.math
        /\ seedCalls = 0
        /\ results = <<>>

C8_SeededRequestRejected ==
    /\ pc = "done"
    /\ req.seed = Num(7)
    /\ response.success = FALSE
    /\ response.details.t = "tree"
    /\ rng # SeedState(Num(7))

\* C9: a generation call with a seed (0 included) seeds the value source
\* exactly once, before any row is made, and not again between rows; a call
\* without seed never seeds it.
C9_SeededOnceBeforeRows ==
    /\ pc \in {"idle", "seed"} => seedCalls = 0 /\ results = <<>>
    /\ (pc \in {"rows", "done"} /\ params # None) =>
          IF params.seed # U
          THEN /\ seedCalls = 1
               /\ made = 0
               /\ results = <<>> => rng = SeedState(params.seed)
          ELSE seedCalls = 0
    /\ (pc = "done" /\ params = None) => seedCalls = 0

C9_SeedZeroSeededOnce ==
    /\ Succeeded
    /\ params.seed = Num(0)
    /\ seedCalls = 1
    /\ made = 0
    /\ Len(results) = 2

\* Two validated requests are equivalent: the same count and seed, and the
\* same descriptors, where an empty values list counts as none.
SameAttributes(f, g) ==
    \A k \in AttrNames :
        LET a == Prop(f, k)
            b == Prop(g, k)
        IN  a = b \/ (k = "values" /\ {a, b} = {U, Arr(<<>>)})
Equivalent(a, b) ==
    /\ a.count = b.count
    /\ a.seed = b.seed
    /\ Len(a.fields) = Len(b.fields)
    /\ \A i \in 1..Len(a.fields) : SameAttributes(a.fields[i], b.fields[i])

\* C10: a schema (a non-empty list of descriptors) sent on GET as JSON text
\* and sent in array notation gives equivalent validated requests (the same
\* descriptors with the same attribute values and types, the same count and
\* seed), or is rejected both ways.
C10_EncodingsAgree ==
    (/\ pc # "idle"
     /\ req.method = "GET"
     /\ req.enc \in {"json", "qs"}
     /\ req.schema.v # <<>>
     /\ \A i \in 1..Len(req.schema.v) : req.schema.v[i].t = "object") =>
        LET json == GetValidated(GetJson(req.schema, req.count, req.seed).query)
            array == GetValidated(GetQs(req.schema, req.count, req.seed).query)
        IN  /\ json.ok <=> array.ok
            /\ json.ok => Equivalent(json.v, array.v)

\* The values the rule of f's type can return at the current time.
TypeRuleValues(f) ==
    {TypeRule(f, r, 0, now).res.v : r \in {q \in 0..(RngMod - 1) : TypeRule(f, q, 0, now).res.ok}}
HasEnumValues(f) == f.type = Str("enum") /\ IsArray(f.values) /\ f.values.v # <<>>
\* The capability f's `related` path ends at.
Resolved(f) == IF Truthy(f.related) THEN Walk("", SplitDots(f.related.v)) ELSE ""
\* The descriptors whose value a row shows under their name.
Shown(fields) ==
    {i \in 1..Len(fields) : fields[i].v.name.v # "__proto__" /\ LastNamed(fields, i)}
ValueOf(r, i) == RowGet(response.data[r], params.fields[i].v.name.v)

\* C11 as stated: first match wins: an enum field with non-empty values gets
\* one of its values even when related is set; otherwise a field whose
\* related path resolves to a callable capability gets that capability's
\* result, not a value of its type's rule; only otherwise the type's rule.
C11_FirstMatchWins ==
    Succeeded =>
        \A r \in 1..Len(response.data) : \A i \in Shown(params.fields) :
            LET f == params.fields[i].v
                v == ValueOf(r, i)
            IN  IF HasEnumValues(f)
                THEN \E j \in 1..Len(f.values.v) : v = f.values.v[j]
                ELSE IF Resolved(f) \in FakerMethods
                THEN v.t = "gen" /\ v.cap = Resolved(f)
                ELSE f.related = U => v \in TypeRuleValues(f)

\* C11: first match wins: an enum field with non-empty values gets one of
\* its values even when related is set; otherwise a field whose related path
\* resolves to a callable capability gets that capability's result when the
\* call returns, and the value of its type's rule when the call throws; a
\* field without related gets the value of its type's rule.
C11_FirstMatchWinsUnlessCallThrows ==
    Succeeded =>
        \A r \in 1..Len(response.data) : \A i \in Shown(params.fields) :
            LET f == params.fields[i].v
                v == ValueOf(r, i)
            IN  IF HasEnumValues(f)
                THEN \E j \in 1..Len(f.values.v) : v = f.values.v[j]
                ELSE IF Resolved(f) \in FakerMethods \ FakerThrowing
                THEN v.t = "gen" /\ v.cap = Resolved(f)
                ELSE (Resolved(f) \in FakerThrowing \/ f.related = U) => v \in TypeRuleValues(f)

C11_EnumValuesBeatRelated ==
    /\ Succeeded
    /\ Len(params.fields) = 1
    /\ HasEnumValues(params.fields[1].v)
    /\ params.fields[1].v.related = Str("animal.dog")
    /\ Len(response.data) = 2
    /\ ValueOf(1, 1) = Str("y")

\* C12: a field whose related path does not resolve to a callable capability
\* (a segment is not found, or the path ends at something not callable) gets
\* a value of its type's rule in every row generated, never the object the
\* walk stopped at.
C12_UnresolvedRelatedFallsBack ==
    (pc \in {"rows", "done"} /\ params # None) =>
        \A r \in 1..Len(results) : \A i \in Shown(params.fields) :
            LET f == params.fields[i].v
            IN  (Truthy(f.related) /\ ~HasEnumValues(f) /\ Resolved(f) \notin FakerMethods) =>
                    RowGet(results[r], f.name.v) \in TypeRuleValues(f)

\* The request carries no count, neither in the query nor in the body.
CountAbsent ==
    /\ req.query.count = U
    /\ req.body = U \/ Prop(req.body, "count") = U

\* C13: a request without count (GET query, POST body, POST query) is
\* validated with count 10, is never rejected for its count, and is answered
\* with exactly 10 rows.
C13_AbsentCountIsTen ==
    (pc # "idle" /\ CountAbsent) =>
        /\ params # None => params.count = Num(DefaultCount)
        /\ (pc = "done" /\ ~response.success /\ response.details.t = "tree") =>
              \A is \in response.details.issues : is.path # <<"count">>
        /\ Succeeded =>
              /\ Len(response.data) = DefaultCount
              /\ response.count = DefaultCount

C13_TenRowsForBodyWithoutCount ==
    /\ Succeeded
    /\ CountAbsent
    /\ req.method = "POST"
    /\ req.enc = "body"
    /\ Len(response.data) = 10

\* C14: the count of every validated request is an integer of [1, 10000],
\* on GET and on POST, and the number of rows generated equals it.
C14_ValidatedCountIsInteger ==
    (pc # "idle" /\ params # None /\ Routed) =>
        /\ params.count.t = "number"
        /\ params.count.frac = 0
        /\ MinCount <= params.count.v /\ params.count.v <= MaxCount
        /\ Succeeded => Len(response.data) = params.count.v

\* C15: a string field without related gets an alphanumeric string whose
\* length is the field's length when one is given, and 10 when none is.
C15_StringHasRequestedLength ==
    (Succeeded /\ Routed /\ req.schema # U) =>
        \A r \in 1..Len(response.data) : \A i \in Shown(req.schema.v) :
            LET f == req.schema.v[i].v
                v == RowGet(response.data[r], f.name.v)
            IN  (f.type = Str("string") /\ f.related = U) =>
                    /\ v.t = "gen"
                    /\ v.cap = "string.alphanumeric"
                    /\ v.arg = IF f.length = U THEN DefaultLength ELSE f.length.v

\* The query of the request without what its body overrides: the fields, and
\* the count and the seed that the body defines.
QueryLeftOver ==
    Query(U, U,
          IF Prop(req.body, "count") # U THEN U ELSE req.query.count,
          IF Prop(req.body, "seed") # U THEN U ELSE req.query.seed)

\* C16: on POST, when the body carries fields (an array or a string), the
\* request is handled as if the query carried no fields, and a count or seed
\* defined in the body is the one validated, whatever the query carries.
C16_BodyTakesPriority ==
    (/\ pc # "idle"
     /\ req.method = "POST"
     /\ req.body # U
     /\ IsArray(Prop(req.body, "fields")) \/ TypeOf(Prop(req.body, "fields")) = "string") =>
        LET alone == PostValidated(QueryLeftOver, req.body)
        IN  /\ alone.ok =>
                  /\ params = alone.v
                  /\ Prop(req.body, "count") # U => params.count = Prop(req.body, "count")
                  /\ Prop(req.body, "seed") # U => params.seed = Prop(req.body, "seed")
            /\ ~alone.ok => pc = "done" /\ response = Failure(alone)

C16_BodyFieldsAndCountUsed ==
    /\ Succeeded
    /\ req.enc = "both"
    /\ req.query.count = Str("1")
    /\ req.query.fields # U
    /\ Len(response.data) = 2
    /\ RowKeys(response.data[1]) = <<"a">>
    /\ params.seed = Num(0)

\* The `fields` the handler reads: the body's on POST when the body has one,
\* the query's plain entry otherwise.
FieldsRead ==
    IF req.method = "POST" /\ req.body # U /\ Prop(req.body, "fields") # U
    THEN Prop(req.body, "fields")
    ELSE IF req.query.qsFields = U THEN req.query.fields ELSE U
\* A string that is not the JSON text of an array.
NotAJsonArray(x) ==
    /\ TypeOf(x) = "string"
    /\ ~JsonParse(x).ok \/ ~IsArray(JsonParse(x).v)

\* C17: a `fields` string that is not parsable JSON, or that parses to
\* something other than an array, is answered with the failure whose details
\* are 'Invalid fields format. Must be a JSON array.', on GET and on POST.
C17_MalformedFieldsIsInvalidFormat ==
    (pc # "idle" /\ NotAJsonArray(FieldsRead)) =>
        /\ pc = "done"
        /\ response.success = FALSE
        /\ response.details = Str(InvalidFieldsFormat)

\* C18: every descriptor of a validated request has a type of the supported
\* enumeration and a name that is a string with a character other than a
\* space in it; a request with a blank or absent name is rejected.
C18_ValidatedNameAndType ==
    (pc # "idle" /\ params # None) =>
        \A i \in 1..Len(params.fields) :
            LET f == params.fields[i].v
            IN  /\ f.type.t = "string" /\ f.type.v \in SUPPORTED_TYPES
                /\ f.name.t = "string" /\ TrimLeft(f.name.v) # ""

\* A raw attribute that is a number or the text of one.
Numeric(a) == a.t = "number" \/ (a.t = "string" /\ a.v # "" /\ StringToNumber(a.v) # NaN)

\* C19: normalizeFields makes each of min, max and length the number the raw
\* attribute denotes whenever that is a number or a numeric string, 0
\* included, and leaves it absent when the raw attribute is absent or empty.
C19_NumericAttributesCoerced ==
    (raw # None /\ normalized.ok) =>
        \A i \in 1..Len(raw.v) : \A k \in {"min", "max", "length"} :
            LET a == Prop(raw.v[i], k)
                b == Prop(normalized.v.v[i], k)
            IN  /\ Numeric(a) => b = ToNumber(a)
                /\ (a = U \/ a = Str("")) => b = U

\* C20: normalizeFields keeps a raw values that is a sequence as it is,
\* elements and order, and wraps a raw values that is a bare scalar (a
\* non-empty string, a number or a boolean) into a sequence of that one
\* element.
C20_ValuesMadeSequence ==
    (raw # None /\ normalized.ok) =>
        \A i \in 1..Len(raw.v) :
            LET a == Prop(raw.v[i], "values")
                b == Prop(normalized.v.v[i], "values")
            IN  /\ IsArray(a) => b = a
                /\ (a.t \in {"number", "boolean"} \/ (a.t = "string" /\ a.v # "")) =>
                      b = Arr(<<a>>)

\* The failure's report has an issue at this path.
Reported(path) == \E is \in response.details.issues : is.path = path

\* C21: validation is not fail-fast: the failure of a request with several
\* violations (fields without name or with an empty one, fields of
\* unsupported type, a count of 0 or above 10000) reports every one of them,
\* each under its own path.
C21_EveryViolationReported ==
    (/\ pc = "done"
     /\ req.schema # U
     /\ \A i \in 1..Len(req.schema.v) : req.schema.v[i].t = "object"
     /\ AsksBadCount \/ AsksNamelessField \/ AsksUnknownType) =>
        /\ response.success = FALSE
        /\ response.details.t = "tree"
        /\ AsksBadCount => Reported(<<"count">>)
        /\ \A i \in 1..Len(req.schema.v) :
              LET f == req.schema.v[i]
                  at == <<"fields", IntToStr(i - 1)>>
              IN  /\ Prop(f, "name") \in {U, Str("")} => Reported(at \o <<"name">>)
                  /\ Prop(f, "type") \notin {Str(t) : t \in SUPPORTED_TYPES} =>
                        Reported(at \o <<"type">>)

C21_ThreeViolationsReported ==
    /\ pc = "done"
    /\ response.success = FALSE
    /\ response.details.t = "tree"
    /\ {is.path : is \in response.details.issues} =
          {<<"count">>, <<"fields", "0", "name">>, <<"fields", "1", "type">>}

\* The schemas of two valid fields that carry one name.
DuplicateSchemas == {sc \in PairSchemas : Prop(sc.v[1], "name") = Prop(sc.v[2], "name")}

\* The state of the value source when the first row of the request began.
RowsStart == IF params.seed # U THEN SeedState(params.seed) ELSE entry.rng

\* C22: a schema whose two fields carry one name is accepted; every row has
\* that one key only (fewer keys than fields), its value is the one generated
\* for the second field, generated after the first field's value was
\* generated and drew from the value source, and at the end the source has
\* moved by one row's draws of both fields for every row.
C22_LastDuplicateWins ==
    (pc = "done" /\ req.schema \in DuplicateSchemas) =>
        /\ response.success
        /\ LET name == params.fields[2].v.name.v
               one == GenerateFieldValue(params.fields[1].v, RowsStart, entry.math, now)
               two == GenerateFieldValue(params.fields[2].v, one.rng, one.math, now)
               perRow == (two.rng - RowsStart + RngMod) % RngMod
               perRowMath == (two.math - entry.math + MathMod) % MathMod
           IN  /\ one.rng = Advance(RowsStart)
               /\ rng = (RowsStart + Len(response.data) * perRow) % RngMod
               /\ math = (entry.math + Len(response.data) * perRowMath) % MathMod
               /\ \A r \in 1..Len(response.data) :
                     LET skipped == GenerateFieldValue(params.fields[1].v,
                                        (RowsStart + (r - 1) * perRow) % RngMod,
                                        (entry.math + (r - 1) * perRowMath) % MathMod, now)
                         kept == GenerateFieldValue(params.fields[2].v, skipped.rng, skipped.math, now)
                     IN  /\ RowKeys(response.data[r]) = <<name>>
                         /\ Len(response.data[r]) < Len(params.fields)
                         /\ RowGet(response.data[r], name) = kept.res.v

C22_TwoRowsOfOneKey ==
    /\ pc = "done"
    /\ req.schema \in DuplicateSchemas
    /\ response.success
    /\ Len(response.data) = 2
    /\ Len(params.fields) = 2
    /\ params.fields[2].v.type = Str("word")
    /\ \A r \in 1..2 : Len(response.data[r]) = 1
    /\ rng = (RowsStart + 4) % RngMod

(***************************************************************************)
(* The service with an observer that keeps one unseeded answer together    *)
(* with the state of the value source the request started from             *)
(***************************************************************************)
KeepUnseeded ==
    /\ pc = "done"
    /\ response.success
    /\ params.seed = U
    /\ ref' = [params |-> params, data |-> response.data, start |-> entry.rng]
    /\ ref' # ref
    /\ UNCHANGED <<rng, math, now, pc, req, params, results, response, entry, seedCalls, made,
                   raw, normalized>>

NextCarry ==
    \/ GetGenerateDet
    \/ PostGenerateDet
    \/ SeedSource
    \/ GenerateRow
    \/ Respond
    \/ Finish
    \/ Tick
    \/ KeepUnseeded

SpecCarry == Init /\ [][NextCarry]_vars

\* C23: the state of the seeded value source is all that a request without a
\* seed takes over from the requests before it: it starts from the state they
\* left (it never reseeds), and two such requests with the same schema and
\* count that start from the same state of the value source, as they do after
\* the same seeded request and the same requests since, return the same rows.
C23_UnseededRowsFollowSourceState ==
    (Succeeded /\ params.seed = U) =>
        /\ seedCalls = 0
        /\ (ref # None /\ ref.params = params /\ ref.start = entry.rng) =>
              response.data = ref.data

\* The validated schema has no enum field.
NoEnumField == \A i \in 1..Len(params.fields) : params.fields[i].v.type # Str("enum")

C25_NormalizeIdempotent ==
    (raw # None /\ normalized.ok) => NormalizeFields(normalized.v) = normalized

\* The request asks for one enum field named "a" whose values is absent or
\* empty, with a count that is in range.
AsksEmptyEnum ==
    /\ pc = "done"
    /\ Routed
    /\ req.schema # U
    /\ IsArray(req.schema)
    /\ Len(req.schema.v) = 1
    /\ req.schema.v[1].t = "object"
    /\ Prop(req.schema.v[1], "name") = Str("a")
    /\ Prop(req.schema.v[1], "type") = Str("enum")
    /\ Prop(req.schema.v[1], "values") \in {U, Arr(<<>>)}
    /\ ~AsksBadCount

\* The default rule's value: a 10-character alphanumeric string.
IsDefaultText(v) == v.t = "gen" /\ v.cap = "string.alphanumeric" /\ v.arg = DefaultLength

====
